---- MODULE Spec2Model ----
(***************************************************************************)
(* Model of python/BLOSEM_tutorial/EVBatteryValueFed.py: the battery value *)
(* federate.  The script registers with HELICS, enters executing mode,     *)
(* draws an initial SOC per publication and then loops: request a time,    *)
(* take the grant, and for every input read the voltage, optionally reset  *)
(* the SOC, look up the resistance with np.interp, compute the current,    *)
(* accumulate the SOC and publish.                                         *)
(*                                                                         *)
(* Reals are fixed-point integers: SOC and resistance are held in units of *)
(* 1/SCALE (the table literals have four decimals), voltages in volts,     *)
(* currents in 1/SCALE ampere, times in seconds.                           *)
(*                                                                         *)
(* Python values that may be a float or an ndarray are tagged records:     *)
(* [kind |-> "scalar", v |-> n], [kind |-> "array", v |-> <<...>>]; a name *)
(* that has not been assigned yet is Unbound; a raised exception is        *)
(* [kind |-> "error", v |-> <exception name>].                             *)
(***************************************************************************)
EXTENDS Integers, Sequences, FiniteSets

VARIABLES
    pc,                \* position of the script
    sub_count,         \* line 68
    pub_count,         \* line 70
    current_soc,       \* line 104: dict index -> SOC
    t,                 \* line 114 / 125
    requested_time,    \* line 120
    grantedtime,       \* line 98 / 122
    j,                 \* line 127: loop index of the per-unit loop
    charging_voltage,  \* line 131
    R,                 \* line 139
    charging_current,  \* line 142
    published,         \* values handed to helicsPublicationPublishDouble
    time_sim,          \* line 111 / 156
    current,           \* line 112 / 157
    timelog,           \* lines 121, 123: the logged <<requested, granted>> pairs
    error,             \* the uncaught exception that ended the script, or "none"
    query,             \* argument of a stand-alone resistance lookup
    result             \* its outcome

vars == <<pc, sub_count, pub_count, current_soc, t, requested_time, grantedtime,
          j, charging_voltage, R, charging_current, published, time_sim,
          current, timelog, error, query, result>>

lookupVars == <<query, result>>

----------------------------------------------------------------------------
(* Bounds of the model *)

MaxInputs == 2          \* most inputs the configuration reports
MaxPublications == 1    \* most publications the configuration reports
GrantEarly == 30        \* the scheduler may grant this much before the request

(* Voltages an input may carry (volts). *)
Voltages == {0, 240, 400}

----------------------------------------------------------------------------
(* Program constants *)

SCALE == 10000
update_interval == 60
batt_cell_series == 96
hours == 24 * 7
total_interval == 60 * 60 * hours

socs ==
    <<0, 667, 1333, 2000, 2667, 3333, 4000, 4667, 5333,
      6000, 6667, 7333, 8000, 8667, 9333, 10000>>

effective_R ==
    <<20000, 22222, 24444, 26667, 26815, 26963, 27111,
      27259, 27407, 27556, 27704, 27852, 28000, 38182,
      60000, 210000>>

----------------------------------------------------------------------------
(* Python / numpy values *)

Unbound == [kind |-> "unbound"]
Scalar(x) == [kind |-> "scalar", v |-> x]
Array(s) == [kind |-> "array", v |-> s]
Raised(e) == [kind |-> "error", v |-> e]

(* Mutant of RandInt: the upper end included, as random.randint does. *)
RandIntInclusive(low, high) == low .. high

(* np.random.randint(low, high): an integer in [low, high).  The seeded     *)
(* generator's outputs are not computed: a draw is any value it can return. *)
RandInt(low, high) == low .. (high - 1)

(* (np.random.randint(0,80))/100 in units of 1/SCALE. *)
RandomSoc == { (d * SCALE) \div 100 : d \in RandInt(0, 80) }

(* One point of numpy's interpolation: x against nodes xp with values fp.   *)
(* Left of the first node the first value, right of the last node the last  *)
(* value, on a node its value, else linear between the bracketing nodes.    *)
Interp1(x, xp, fp) ==
    LET n == Len(xp) IN
    IF x > xp[n] THEN fp[n]
    ELSE IF x < xp[1] THEN fp[1]
    ELSE LET i == CHOOSE k \in 1..n :
                     /\ xp[k] <= x
                     /\ (k = n \/ x < xp[k + 1])
         IN IF i = n \/ xp[i] = x THEN fp[i]
            ELSE fp[i] + ((fp[i + 1] - fp[i]) * (x - xp[i])) \div (xp[i + 1] - xp[i])

(* np.interp(x, xp, fp): fp and xp are converted to 1-d arrays (a 0-d fp is *)
(* refused), must have the same length, and x is interpolated elementwise.  *)
NpInterp(x, xp, fp) ==
    IF fp.kind # "array" \/ xp.kind # "array"
    THEN Raised("ValueError")
    ELSE IF Len(xp.v) = 0 \/ Len(fp.v) # Len(xp.v)
    THEN Raised("ValueError")
    ELSE IF x.kind = "array"
         THEN Array([i \in DOMAIN x.v |-> Interp1(x.v[i], xp.v, fp.v)])
         ELSE Scalar(Interp1(x.v, xp.v, fp.v))

(* The lookup as the script calls it, lines 139-140. *)
Interpolate(soc) == NpInterp(Array(socs), Array(effective_R), soc)

(* Arithmetic on a float or ndarray operand is elementwise.                 *)

(* batt_cell_series * <lookup>, line 139. *)
SeriesResistance(res) ==
    IF res.kind = "array"
    THEN Array([i \in DOMAIN res.v |-> batt_cell_series * res.v[i]])
    ELSE Scalar(batt_cell_series * res.v)

(* One quotient of charging_voltage / R in 1/SCALE ampere (r is in 1/SCALE  *)
(* ohm; its last two digits are dropped to stay within 32-bit integers);    *)
(* numpy yields inf (a warning, no exception) for a zero divisor.           *)
Quotient(v, r) ==
    IF r = 0 THEN "inf"
    ELSE IF r \div 100 = 0 THEN v * SCALE * 100
    ELSE (v * SCALE * 100) \div (r \div 100)

(* charging_voltage / R, line 142. *)
ChargingCurrent(v, res) ==
    IF res.kind = "array"
    THEN Array([i \in DOMAIN res.v |-> Quotient(v, res.v[i])])
    ELSE Scalar(Quotient(v, res.v))

(* charging_current * charging_voltage * update_interval/3600, lines 144-145 *)
AddedEnergy(cur, v) ==
    IF cur.kind = "array"
    THEN Array([i \in DOMAIN cur.v |-> (cur.v[i] * v * update_interval) \div 3600])
    ELSE Scalar((cur.v * v * update_interval) \div 3600)

(* current_soc[j] + added_energy, line 147. *)
Accumulate(soc, added) ==
    IF added.kind = "array"
    THEN Array([i \in DOMAIN added.v |-> soc.v + added.v[i]])
    ELSE Scalar(soc.v + added.v)

----------------------------------------------------------------------------
(* The scheduler's answer to a time request: the requested time, an earlier *)
(* one, or a later one (the end of the simulated range), never before the   *)
(* last granted time.                                                       *)
Grants(req, cur) ==
    { g \in {req - GrantEarly, req, total_interval} : g >= cur }

(* Mutant of RequestedTime: the interval forgotten. *)
RequestedTimeNow(cur) == cur

(* requested_time = (t+update_interval), line 120. *)
RequestedTime(cur) == cur + update_interval

(* Mutant of ClockAfterGrant: the clock set to what was asked for. *)
ClockAfterRequest(req, g) == req

(* t = grantedtime, line 125: the clock after a request for req was         *)
(* answered with g.                                                         *)
ClockAfterGrant(req, g) == g

Init ==
    /\ pc = "Uninitialized"
    /\ sub_count = 0
    /\ pub_count = 0
    /\ current_soc = << >>
    /\ t = 0
    /\ requested_time = 0
    /\ grantedtime = -1
    /\ j = 0
    /\ charging_voltage = Unbound
    /\ R = Unbound
    /\ charging_current = Unbound
    /\ published = << >>
    /\ time_sim = << >>
    /\ current = << >>
    /\ timelog = << >>
    /\ error = "none"
    /\ query = Unbound
    /\ result = Unbound

----------------------------------------------------------------------------
(* Lines 64-87: the federate is created from BatteryConfig.json and reports *)
(* its input and publication counts; the handles are collected by index.    *)
(* Nothing compares the two counts.                                         *)
Register ==
    /\ pc = "Uninitialized"
    /\ \E s \in 0..MaxInputs, p \in 0..MaxPublications :
          /\ sub_count' = s
          /\ pub_count' = p
    /\ pc' = "Registered"
    /\ UNCHANGED <<current_soc, t, requested_time, grantedtime, j,
                   charging_voltage, R, charging_current, published,
                   time_sim, current, timelog, error, lookupVars>>

(* Lines 91-114: enter executing mode, draw one SOC per publication, start  *)
(* the clock at 0.                                                          *)
EnterExecutingMode ==
    /\ pc = "Registered"
    /\ \E draws \in [0..(pub_count - 1) -> RandomSoc] :
          current_soc' = [i \in 0..(pub_count - 1) |-> Scalar(draws[i])]
    /\ grantedtime' = -1
    /\ t' = 0
    /\ time_sim' = << >>
    /\ current' = << >>
    /\ pc' = "LoopHead"
    /\ UNCHANGED <<sub_count, pub_count, requested_time, j, charging_voltage,
                   R, charging_current, published, timelog, error, lookupVars>>

(* Line 117, then lines 120-122 (the request is issued and the script       *)
(* blocks in helicsFederateRequestTime) or line 162 (destroy_federate).     *)
LoopHead ==
    /\ pc = "LoopHead"
    /\ IF t < total_interval
       THEN /\ requested_time' = RequestedTime(t)
            /\ pc' = "Waiting"
       ELSE /\ pc' = "Terminated"
            /\ UNCHANGED requested_time
    /\ UNCHANGED <<sub_count, pub_count, current_soc, t, grantedtime, j,
                   charging_voltage, R, charging_current, published,
                   time_sim, current, timelog, error, lookupVars>>

(* Lines 122-127: helicsFederateRequestTime returns; t = grantedtime; the   *)
(* per-unit loop starts at 0 (and is empty when there is no input).         *)
Grant ==
    /\ pc = "Waiting"
    /\ \E g \in Grants(requested_time, t) :
          /\ grantedtime' = g
          /\ t' = ClockAfterGrant(requested_time, g)
          /\ timelog' = Append(timelog, <<requested_time, g>>)
    /\ j' = 0
    /\ pc' = IF 0 < sub_count THEN "Unit" ELSE "EndTick"
    /\ UNCHANGED <<sub_count, pub_count, current_soc, requested_time,
                   charging_voltage, R, charging_current, published,
                   time_sim, current, error, lookupVars>>

(* current_soc after lines 135-136 with voltage v read and d drawn. *)
AfterReset(soc, k, v, d) ==
    IF v = 0
    THEN [i \in (DOMAIN soc) \cup {k} |-> IF i = k THEN Scalar(d) ELSE soc[i]]
    ELSE soc

(* Lines 127-153, one iteration of the per-unit loop for unit j: read the   *)
(* voltage, reset the SOC on a zero voltage, look up R, compute the current *)
(* and the added energy, accumulate the SOC, publish.  An exception raised  *)
(* on the way is not caught anywhere and ends the script; what was assigned *)
(* before it stays assigned.                                                *)
UnitStep ==
    /\ pc = "Unit"
    /\ j < sub_count
    /\ \E v \in Voltages :
       \E d \in (IF v = 0 THEN RandomSoc ELSE {0}) :   \* drawn on line 136 only
        LET soc1 == AfterReset(current_soc, j, v, d) IN
        /\ charging_voltage' = Scalar(v)
        /\ IF j \notin DOMAIN soc1
           THEN \* current_soc[j] on line 140: no such key
                /\ pc' = "Aborted"
                /\ error' = "KeyError"
                /\ current_soc' = soc1
                /\ UNCHANGED <<R, charging_current, published, j>>
           ELSE LET res == Interpolate(soc1[j]) IN
                IF res.kind = "error"
                THEN /\ pc' = "Aborted"
                     /\ error' = res.v
                     /\ current_soc' = soc1
                     /\ UNCHANGED <<R, charging_current, published, j>>
                ELSE LET Rv == SeriesResistance(res)
                         cur == ChargingCurrent(v, Rv)
                         added == AddedEnergy(cur, v)
                     IN /\ R' = Rv
                        /\ charging_current' = cur
                        /\ current_soc' =
                              [soc1 EXCEPT ![j] = Accumulate(soc1[j], added)]
                        /\ IF j \in 0..(pub_count - 1)
                           THEN /\ published' = Append(published, <<j, cur>>)
                                /\ j' = j + 1
                                /\ pc' = IF j + 1 < sub_count
                                         THEN "Unit" ELSE "EndTick"
                                /\ UNCHANGED error
                           ELSE \* pubid[j] on line 153: no such key
                                /\ pc' = "Aborted"
                                /\ error' = "KeyError"
                                /\ UNCHANGED <<published, j>>
    /\ UNCHANGED <<sub_count, pub_count, t, requested_time, grantedtime,
                   time_sim, current, timelog, lookupVars>>

(* Lines 156-157: the data collection after the per-unit loop.             *)
(* charging_current is only bound once an iteration has computed it.       *)
EndTick ==
    /\ pc = "EndTick"
    /\ time_sim' = Append(time_sim, t)
    /\ IF charging_current = Unbound
       THEN /\ pc' = "Aborted"
            /\ error' = "NameError"
            /\ UNCHANGED current
       ELSE /\ current' = Append(current, charging_current)
            /\ pc' = "LoopHead"
            /\ UNCHANGED error
    /\ UNCHANGED <<sub_count, pub_count, current_soc, t, requested_time,
                   grantedtime, j, charging_voltage, R, charging_current,
                   published, timelog, lookupVars>>

Next ==
    \/ Register
    \/ EnterExecutingMode
    \/ LoopHead
    \/ Grant
    \/ UnitStep
    \/ EndTick

Spec == Init /\ [][Next]_vars

----------------------------------------------------------------------------
(* The resistance lookup on its own: the script's np.interp call applied to *)
(* a SOC between -1.0 and 2.0.                                              *)

Queries == { Scalar(q) : q \in (0 - SCALE) .. (2 * SCALE) }

InitLookup ==
    /\ pc = "Uninitialized"
    /\ sub_count = 0
    /\ pub_count = 0
    /\ current_soc = << >>
    /\ t = 0
    /\ requested_time = 0
    /\ grantedtime = -1
    /\ j = 0
    /\ charging_voltage = Unbound
    /\ R = Unbound
    /\ charging_current = Unbound
    /\ published = << >>
    /\ time_sim = << >>
    /\ current = << >>
    /\ timelog = << >>
    /\ error = "none"
    /\ query \in Queries
    /\ result = Unbound

Lookup ==
    /\ result = Unbound
    /\ result' = Interpolate(query)
    /\ UNCHANGED <<pc, sub_count, pub_count, current_soc, t, requested_time,
                   grantedtime, j, charging_voltage, R, charging_current,
                   published, time_sim, current, timelog, error, query>>

LookupSpec == InitLookup /\ [][Lookup]_vars

----------------------------------------------------------------------------
(* Vocabulary of the properties *)

(* The lifecycle state of the design that a position of the script is in;   *)
(* "Aborted" is the exit by an uncaught exception.                          *)
Lifecycle ==
    IF pc \in {"LoopHead", "Waiting", "Unit", "EndTick"} THEN "Executing" ELSE pc

LoopLeft == pc \in {"Terminated", "Aborted"}

(* Every input has its publication, and there is at least one unit. *)
MatchedConfig == sub_count = pub_count /\ sub_count > 0

AllGrantsAsRequested ==
    \A k \in DOMAIN timelog : timelog[k][2] = timelog[k][1]

(* The per-unit pass of unit k has just run (to its end or to an exception). *)
StepJustRan(k) ==
    \/ /\ pc = "Aborted"
       /\ error \in {"ValueError", "KeyError"}
       /\ k = j
    \/ /\ pc \in {"Unit", "EndTick"}
       /\ j > 0
       /\ k = j - 1

SocInRange(s) ==
    /\ s.kind = "scalar"
    /\ 0 <= s.v
    /\ s.v < (80 * SCALE) \div 100

(* The resistance the table gives for a SOC q when socs are the nodes and   *)
(* effective_R the values.                                                  *)
TableR(q) == Interp1(q, socs, effective_R)

----------------------------------------------------------------------------
(* C1: Horizon termination.  A run of a matched configuration in which      *)
(* every grant equals the request ends in Terminated after exactly          *)
(* horizon/step ticks (60 for a horizon of 3600 s and a step of 60 s); it   *)
(* never ends otherwise.                                                    *)
C1_HorizonTermination ==
    (MatchedConfig /\ LoopLeft /\ AllGrantsAsRequested)
        => /\ pc = "Terminated"
           /\ Len(time_sim) * update_interval = total_interval

(* C2: With a matched configuration the loop is left only by reaching       *)
(* Terminated, and only once current_time >= horizon_seconds; until then    *)
(* the script can always take another step (so with every request granted   *)
(* it gets to Terminated).                                                  *)
C2_ExitsOnlyAtHorizon ==
    (pc # "Uninitialized" /\ MatchedConfig)
        => /\ (pc # "Terminated") => ENABLED Next
           /\ (Lifecycle \notin {"Registered", "Executing"})
                  => t >= total_interval

(* C3: Fresh SOC draws stay in range.  Right after initialisation every     *)
(* publication has a SOC in [0, 0.80); and after the pass of a unit whose   *)
(* voltage read 0 that unit has a SOC in [0, 0.80).                         *)
C3_FreshSocInRange ==
    /\ (pc = "LoopHead" /\ timelog = << >>)
          => /\ DOMAIN current_soc = 0..(pub_count - 1)
             /\ \A i \in DOMAIN current_soc : SocInRange(current_soc[i])
    /\ \A k \in 0..MaxInputs :
          (StepJustRan(k) /\ charging_voltage = Scalar(0))
              => /\ k \in DOMAIN current_soc
                 /\ SocInRange(current_soc[k])

(* C3 witness: a unit that had an initial SOC was passed with a zero        *)
(* voltage and now holds the top draw 0.79.                                 *)
C3_Witness ==
    /\ StepJustRan(0)
    /\ charging_voltage = Scalar(0)
    /\ pub_count > 0
    /\ current_soc[0] = Scalar(7900)

(* C4: Energy accumulation law.  A pass of unit j with a nonzero voltage v  *)
(* sets R = cells_in_series * interpolate(soc_before), the current to v / R *)
(* and the SOC to soc_before + current * v * dt / 3600.                     *)
C4_EnergyLaw ==
    [][ (pc = "Unit" /\ MatchedConfig /\ charging_voltage' # Scalar(0))
          => LET v == charging_voltage'.v
                 r == batt_cell_series * TableR(current_soc[j].v)
                 c == Quotient(v, r)
             IN /\ R' = Scalar(r)
                /\ charging_current' = Scalar(c)
                /\ current_soc'[j] =
                      Scalar(current_soc[j].v + (c * v * update_interval) \div 3600)
      ]_vars

C6_MismatchIsFatalAtStartup ==
    (pc # "Uninitialized" /\ sub_count # pub_count)
        => /\ Lifecycle # "Executing"
           /\ Lifecycle # "Terminated"
           /\ timelog = << >>
           /\ charging_voltage = Unbound
           /\ published = << >>

(* C8: Interpolation hits the table.  A lookup at breakpoint i returns      *)
(* resistance_grid[i]; a lookup strictly between two consecutive            *)
(* breakpoints returns a value between the two resistances.                 *)
C8_InterpolationHitsTable ==
    (result # Unbound /\ socs[1] <= query.v /\ query.v <= socs[Len(socs)])
        => /\ result.kind = "scalar"
           /\ \A i \in DOMAIN socs :
                 (query.v = socs[i]) => (result.v = effective_R[i])
           /\ \A i \in 1..(Len(socs) - 1) :
                 (socs[i] < query.v /\ query.v < socs[i + 1])
                     => /\ effective_R[i] <= result.v
                        /\ result.v <= effective_R[i + 1]

(* C9: Boundary clamping.  A lookup below the first breakpoint returns the  *)
(* first resistance and one above the last breakpoint the last resistance;  *)
(* neither is an error.                                                     *)
C9_BoundaryClamping ==
    (result # Unbound)
        => /\ (query.v < socs[1]) => (result = Scalar(effective_R[1]))
           /\ (query.v > socs[Len(socs)])
                 => (result = Scalar(effective_R[Len(socs)]))

(* C10: Non-negative current.  With a matched configuration the pass of a   *)
(* unit whose voltage is >= 0 yields a current, and that current is >= 0.   *)
C10_NonNegativeCurrent ==
    \A k \in 0..MaxInputs :
        (MatchedConfig /\ StepJustRan(k) /\ charging_voltage.v >= 0)
            => /\ charging_current.kind = "scalar"
               /\ charging_current.v >= 0

(* C11: Energy accumulation example.  The pass of a unit at soc 0.5 with 400 *)
(* V applied and dt = 60 s, the table giving R(0.5) = 2.7556 per cell and   *)
(* 96 cells in series, returns 400 / (2.7556 * 96) and leaves the SOC at    *)
(* 0.5 + current * 400 * 60 / 3600.                                         *)
C11_EnergyExample ==
    [][ (/\ pc = "Unit"
         /\ MatchedConfig
         /\ current_soc[j] = Scalar(5000)
         /\ charging_voltage' = Scalar(400))
          => LET c == Quotient(400, batt_cell_series * 27556)
             IN /\ charging_current' = Scalar(c)
                /\ current_soc'[j] = Scalar(5000 + (c * 400 * 60) \div 3600)
      ]_vars

(* C12: Clock invariant.  current_time changes only when a time request is *)
(* answered, and then to the granted time; it never decreases.              *)
C12_ClockOnlyByGrant ==
    [][ /\ (t' # t) => (pc = "Waiting" /\ pc' # "Waiting")
        /\ (pc = "Waiting" /\ pc' # "Waiting")
              => /\ t' = grantedtime'
                 /\ timelog' = Append(timelog, <<requested_time, t'>>)
        /\ t' >= t
      ]_vars

(* C12 witness: a request was answered with an earlier time than asked for, *)
(* and the clock stands at that granted time.                               *)
C12_Witness ==
    /\ pc \in {"Unit", "EndTick"}
    /\ timelog = << <<requested_time, t>> >>
    /\ t = grantedtime
    /\ t > 0
    /\ t < requested_time

(* C13: Tick cycle ordering.  With a matched configuration every grant is   *)
(* followed, before the next request or the end of the run, by one pass per *)
(* unit in increasing index order, each publishing on its own index; while  *)
(* the passes of a tick are under way no request is pending.                *)
C13_TickOrdering ==
    MatchedConfig
        => /\ \A k \in DOMAIN published :
                 published[k][1] = (k - 1) % sub_count
           /\ (pc \in {"LoopHead", "Waiting", "Terminated", "Aborted"})
                 => Len(published) = sub_count * Len(timelog)
           /\ (pc = "Unit")
                 => /\ Len(published) = sub_count * (Len(timelog) - 1) + j
                    /\ timelog[Len(timelog)] = <<requested_time, t>>

(* C14: Lifecycle state machine.  With a matched configuration the script   *)
(* moves only Uninitialized -> Registered -> Executing -> Terminated;       *)
(* before Executing nothing is requested, read or published; from           *)
(* Terminated no step is taken.                                             *)
C14_Lifecycle ==
    [][ /\ (Lifecycle' # Lifecycle /\ sub_count' = pub_count' /\ sub_count' > 0)
              => <<Lifecycle, Lifecycle'>> \in
                    { <<"Uninitialized", "Registered">>,
                      <<"Registered", "Executing">>,
                      <<"Executing", "Terminated">> }
        /\ (Lifecycle' \in {"Uninitialized", "Registered"})
              => /\ timelog' = << >>
                 /\ charging_voltage' = Unbound
                 /\ published' = << >>
        /\ Lifecycle # "Terminated"
      ]_vars

(* C15: Per-unit frame.  With a matched configuration the pass of unit j    *)
(* leaves every other unit's SOC and the clock as they were, and carries    *)
(* out unit j's one SOC update of the tick (it does not stop before it).    *)
C15_PerUnitFrame ==
    [][ (pc = "Unit" /\ MatchedConfig)
          => /\ \A i \in (DOMAIN current_soc) \ {j} :
                   /\ i \in DOMAIN current_soc'
                   /\ current_soc'[i] = current_soc[i]
             /\ t' = t
             /\ pc' # "Aborted"
             /\ R' # Unbound
      ]_vars

(* C16: Reset before compute.  With a matched configuration the pass of a   *)
(* unit whose voltage reads 0 leaves the unit at a fresh draw, takes R at   *)
(* that fresh SOC and publishes exactly one current, 0, for the unit.       *)
C16_ResetBeforeCompute ==
    [][ (pc = "Unit" /\ MatchedConfig /\ charging_voltage' = Scalar(0))
          => /\ SocInRange(current_soc'[j])
             /\ R' = Scalar(batt_cell_series * TableR(current_soc'[j].v))
             /\ published' = Append(published, <<j, Scalar(0)>>)
      ]_vars

(* C17: Every time request asks for current_time + step_seconds, where      *)
(* current_time is the last granted time (0 before the first grant); it is  *)
(* never for a time at or before current_time.                              *)
C17_RequestIsClockPlusStep ==
    /\ (pc = "Waiting")
          => /\ requested_time = t + update_interval
             /\ requested_time > t
             /\ (timelog = << >>) => (requested_time = update_interval)
    /\ \A k \in DOMAIN timelog :
          timelog[k][1] =
             (IF k = 1 THEN 0 ELSE timelog[k - 1][2]) + update_interval

(* C17 witness: the first request is pending, for step_seconds. *)
C17_Witness ==
    /\ pc = "Waiting"
    /\ timelog = << >>
    /\ t = 0
    /\ requested_time = update_interval

(* C18: Ticks equal grants.  With a matched configuration, whenever no tick *)
(* is under way as many ticks have been completed as grants were received,  *)
(* and no request is pending once current_time >= horizon_seconds.          *)
C18_TicksEqualGrants ==
    MatchedConfig
        => /\ (pc \in {"LoopHead", "Waiting", "Terminated", "Aborted"})
                 => Len(time_sim) = Len(timelog)
           /\ (pc = "Waiting") => (t < total_interval)

(* C19: SOC never decreases between resets.  With a matched configuration   *)
(* the pass of a unit with a nonzero voltage v finds R > 0 and adds         *)
(* v^2 * dt / (3600 * R) >= 0 to the SOC; the SOC falls only in a pass with *)
(* zero voltage; and nothing clamps it: from a SOC below 0.80 a pass at     *)
(* 240 V or more ends above 1.                                              *)
C19_SocGrowsUnclamped ==
    [][ (pc = "Unit" /\ MatchedConfig)
          => LET v == charging_voltage'.v
                 before == current_soc[j].v
                 after == current_soc'[j].v
             IN /\ (after < before) => (v = 0)
                /\ (v # 0)
                      => /\ R'.kind = "scalar"
                         /\ R'.v > 0
                         /\ after = before +
                               (Quotient(v, R'.v) * v * update_interval) \div 3600
                         /\ after >= before
                /\ (v >= 240 /\ SocInRange(current_soc[j])) => (after > SCALE)
      ]_vars

====
